---- MODULE Spec2Model ----
(***************************************************************************)
(* A model of OmniDiff's comparison / synchronisation engine               *)
(* (src/src/scanner.rs): scan_folder, calculate_partial_hash,              *)
(* calculate_hash, run_comparison and run_sync, with the parallel hashing  *)
(* and sync workers interleaved at the points where they touch shared      *)
(* state (the atomic counter, the status channel, the destination tree).   *)
(*                                                                         *)
(* File contents are byte strings in run-length form: a sequence of runs   *)
(* [b |-> byte, n |-> count], kept canonical (no empty run, no two         *)
(* adjacent runs of the same byte), so that files of 40 KiB are small      *)
(* values and the program's byte offsets keep their real size.             *)
(* blake3 is modelled as an ideal (collision free) hash: the digest of a   *)
(* byte string is the canonical byte string itself.                        *)
(***************************************************************************)
EXTENDS Integers, Sequences, FiniteSets, TLC

(* ------------------------------------------------------------------ *)
(* Program constants                                                    *)
(* ------------------------------------------------------------------ *)
\* let mut buffer = [0; 16384]; SeekFrom::End(-16384)
PARTIAL_BUF == 16384
\* if len > 32768
TAIL_THRESHOLD == 32768
\* if c % 50 == 0 || c == total_hash
HASH_INTERVAL == 50
\* if c % 10 == 0 || c == total
SYNC_INTERVAL == 10

(* ------------------------------------------------------------------ *)
(* Bounds of the model                                                  *)
(* ------------------------------------------------------------------ *)
\* threads of the rayon pool that can be inside a parallel closure at once
NumThreads == 2
\* the threads the GUI spawns in a behaviour
MaxRuns == 3
\* per-item I/O failures (metadata, open/read, copy, remove) in one behaviour
MaxFaults == 1
\* entries of the CompareResult handed to run_sync in ProgressSpec
MaxTasks == 11

(* ------------------------------------------------------------------ *)
(* Byte strings in run-length form                                      *)
(* ------------------------------------------------------------------ *)
Run(b, n) == [b |-> b, n |-> n]

RECURSIVE Size(_)
Size(c) == IF c = <<>> THEN 0 ELSE Head(c).n + Size(Tail(c))

\* canonical form: drop empty runs, merge adjacent runs of the same byte
RECURSIVE Canon(_)
Canon(c) ==
    IF c = <<>> THEN <<>>
    ELSE IF Head(c).n = 0 THEN Canon(Tail(c))
    ELSE LET rest == Canon(Tail(c)) IN
         IF rest # <<>> /\ Head(rest).b = Head(c).b
         THEN <<Run(Head(c).b, Head(c).n + Head(rest).n)>> \o Tail(rest)
         ELSE <<Head(c)>> \o rest

\* the first k bytes of c (all of c when it is shorter)
RECURSIVE Take(_, _)
Take(c, k) ==
    IF c = <<>> \/ k <= 0 THEN <<>>
    ELSE IF Head(c).n >= k THEN <<Run(Head(c).b, k)>>
    ELSE <<Head(c)>> \o Take(Tail(c), k - Head(c).n)

\* c without its first k bytes
RECURSIVE Drop(_, _)
Drop(c, k) ==
    IF c = <<>> THEN <<>>
    ELSE IF k <= 0 THEN c
    ELSE IF Head(c).n > k THEN <<Run(Head(c).b, Head(c).n - k)>> \o Tail(c)
    ELSE Drop(Tail(c), k - Head(c).n)

\* file.seek(off); file.read(&mut buffer) on a regular file: the bytes
\* [off, min(off + cnt, len))
ReadAt(c, off, cnt) == Take(Drop(c, off), cnt)

\* blake3 over a byte string (hasher.update calls concatenate their input)
Blake3(bytes) == Canon(bytes)

(* ------------------------------------------------------------------ *)
(* HashEngine                                                           *)
(* ------------------------------------------------------------------ *)
\* mutation: the tail is read from 32768 bytes on, not above
calculate_partial_hash_tail_at_threshold(c) ==
    LET len  == Size(c)
        head == ReadAt(c, 0, PARTIAL_BUF)
    IN  IF len >= TAIL_THRESHOLD
        THEN Blake3(head \o ReadAt(c, len - PARTIAL_BUF, PARTIAL_BUF))
        ELSE Blake3(head)

\* Some(digest) of the head and, for len > 32768, the tail
calculate_partial_hash(c) ==
    LET len  == Size(c)
        head == ReadAt(c, 0, PARTIAL_BUF)
    IN  IF len > TAIL_THRESHOLD
        THEN Blake3(head \o ReadAt(c, len - PARTIAL_BUF, PARTIAL_BUF))
        ELSE Blake3(head)

\* Some(hex digest) of the whole mapped file
calculate_hash(c) == Blake3(c)

(* ------------------------------------------------------------------ *)
(* Inputs: the two directory trees                                      *)
(* ------------------------------------------------------------------ *)
\* relative keys of the two trees
Keys == {1, 2}
\* 40 KiB of zero bytes
FileX == <<Run(0, 40960)>>
\* as FileX, but for 8 KiB in the middle (first and last 16 KiB are equal)
FileY == <<Run(0, 16384), Run(1, 8192), Run(0, 16384)>>
\* as FileX, but for its first byte
FileW == <<Run(1, 1), Run(0, 40959)>>
\* a file of another size
FileZ == <<Run(0, 1)>>
\* modification times (seconds) of the files present at the start
MTimes == {1, 2}
\* the time at which a sync run writes a file: later than every MTimes
CopyTime == 1 + Cardinality(MTimes)

File(c, m) == [content |-> c, mtime |-> m]
\* a tree maps the relative keys of its regular files to the files
Trees(files) == UNION {[S -> files] : S \in SUBSET Keys}
\* the trees of the behaviours without I/O failures
SourceTrees == Trees({File(c, 1) : c \in {FileX, FileZ}})
DestTrees == Trees({File(c, m) : c \in {FileX, FileY, FileW, FileZ}, m \in MTimes})
\* the trees of the behaviours in which I/O can fail
FaultySourceTrees == Trees({File(FileX, 1)})
FaultyDestTrees == Trees({File(FileX, 1), File(FileY, 1)})

(* ------------------------------------------------------------------ *)
(* Data model                                                           *)
(* ------------------------------------------------------------------ *)
None == <<>>
Some(x) == <<x>>

\* FileEntry { path, rel_path, size, modified, hash: None }
FileEntry(side, k, f) ==
    [path |-> <<side, k>>, rel_path |-> k, size |-> Size(f.content),
     modified |-> f.mtime, hash |-> None]

\* ScanStatus
Event(t, c, n) == [type |-> t, cur |-> c, total |-> n]
ScanningBoth == Event("ScanningBoth", 0, 0)
Hashing(c, n) == Event("Hashing", c, n)
Syncing(c, n) == Event("Syncing", c, n)
Complete == Event("Complete", 0, 0)

\* CompareResult
CompareResult(mid, mis, dc) ==
    [missing_in_dest |-> mid, missing_in_source |-> mis, different_content |-> dc]
EmptyResult == CompareResult(<<>>, <<>>, <<>>)

VARIABLES
    srcFS,              \* the source tree: relative key -> file
    dstFS,              \* the destination tree
    roots,              \* which of the two root directories exist
    pc,                 \* where the engine is
    check_content,      \* run_comparison's flag
    scanned,            \* which of the two scans of rayon::join have returned
    source_files,       \* run_comparison's locals
    dest_files,
    missing_in_dest,
    missing_in_source,
    different_content,
    candidates,         \* same_size_candidates
    tasks,              \* run_sync's locals
    delete_tasks,
    delete_extra,
    task_pc,            \* per parallel item: "todo", "fetched", "done"
    task_c,             \* per item in a closure: the c it got from fetch_add
    hashed_diffs,       \* per candidate: what its filter_map closure returned
    counter,            \* the AtomicUsize
    total,              \* total_hash / total
    chan,               \* the status channel of the current run, oldest first
    results,            \* the CompareResult the last comparison returned
    hash_calls,         \* instrumentation: <<function, path>> calls of this run
    nfail,              \* I/O failures the run's environment has used up
    run_failed,         \* an I/O failure happened in the current run
    io_failed,          \* history: <<operation, path>> of each I/O failure of the current run
    prev,               \* history: the comparison before the last one
    last,               \* history: the last comparison that returned
    dst_at_sync         \* history: the destination tree when run_sync was called

engineVars == <<srcFS, dstFS, roots, pc, check_content, scanned, source_files, dest_files,
          missing_in_dest, missing_in_source, different_content, candidates,
          tasks, delete_tasks, delete_extra, task_pc, task_c, hashed_diffs,
          counter, total, chan, results, hash_calls, nfail, run_failed, io_failed,
          prev, last, dst_at_sync>>

\* the fields of FolderCompareApp that the comparison and the sync involve,
\* its two channels, and the threads it has spawned
VARIABLES
    is_scanning,        \* self.is_scanning
    is_syncing,         \* self.is_syncing
    app_results,        \* self.results: None, or Some(thread that returned it)
    app_delete_extra,   \* self.delete_extra, the Mirror Mode checkbox
    confirm_sync_open,  \* self.confirm_sync_open
    rx,                 \* self.rx: 0 for None, else the thread whose events it receives
    result_rx,          \* self.result_rx: 0 for None, else the comparison thread
    status_queue,       \* the events waiting in the channel of self.rx
    result_queue,       \* the results waiting in the channel of self.result_rx
    threads,            \* the spawned threads, in the order of their spawning
    frame               \* where update() is: at its polling or at its widgets

appVars == <<is_scanning, is_syncing, app_results, app_delete_extra,
             confirm_sync_open, rx, result_rx, status_queue, result_queue,
             threads, frame>>

vars == <<engineVars, appVars>>

fsVars == <<srcFS, dstFS, roots>>
compareLocals == <<source_files, dest_files, missing_in_dest, missing_in_source,
                   different_content, candidates, hashed_diffs>>
syncLocals == <<tasks, delete_tasks, delete_extra>>
histVars == <<prev, last, dst_at_sync>>

(* ------------------------------------------------------------------ *)
(* File system                                                          *)
(* ------------------------------------------------------------------ *)
Roots == {"src", "dst"}
Tree(side) == IF side = "src" THEN srcFS ELSE dstFS
Exists(path) == path[2] \in DOMAIN Tree(path[1])
FileAt(path) == Tree(path[1])[path[2]]

\* mutation: the copy writes nothing
PutNothing(fs, k, f) == fs

Put(fs, k, f) == [x \in DOMAIN fs \cup {k} |-> IF x = k THEN f ELSE fs[x]]
Remove(fs, k) == [x \in DOMAIN fs \ {k} |-> fs[x]]

(* ------------------------------------------------------------------ *)
(* Scanner                                                              *)
(* ------------------------------------------------------------------ *)
\* scan_folder: every regular file under the root, but for the entries whose
\* metadata read failed; the walk of a root that does not exist yields one
\* error item, which filter_map(|e| e.ok()) drops: the map is empty
scan_folder(side, dropped) ==
    IF side \in roots
    THEN [k \in DOMAIN Tree(side) \ dropped |-> FileEntry(side, k, Tree(side)[k])]
    ELSE <<>>

(* ------------------------------------------------------------------ *)
(* Comparator: the sequential part of run_comparison                    *)
(* ------------------------------------------------------------------ *)
RECURSIVE Ascending(_)
Ascending(S) ==
    IF S = {} THEN <<>>
    ELSE LET m == CHOOSE x \in S : \A y \in S : x <= y
         IN  <<m>> \o Ascending(S \ {m})

Reverse(s) == [i \in 1..Len(s) |-> s[Len(s) + 1 - i]]

\* the iteration orders of a HashMap with key set S that the model explores
IterationOrders(S) == {Ascending(S), Reverse(Ascending(S))}

MapSeq(keys, f) == [i \in 1..Len(keys) |-> f[keys[i]]]

\* mutation: the loop pushes every source entry
MissingInDestAll(sf, df, order) == MapSeq(order, sf)

\* for (rel_path, src_entry) in &source_files: the else branch
MissingInDest(sf, df, order) ==
    MapSeq(SelectSeq(order, LAMBDA k : k \notin DOMAIN df), sf)

\* for (rel_path, src_entry) in &source_files: the if-let branch
CommonFiles(sf, df, order) ==
    LET both == SelectSeq(order, LAMBDA k : k \in DOMAIN df)
    IN  [i \in 1..Len(both) |-> <<sf[both[i]], df[both[i]]>>]

\* mutation: the loop tests contains_key without the negation
MissingInSourceInverted(sf, df, order) ==
    MapSeq(SelectSeq(order, LAMBDA k : k \in DOMAIN sf), df)

\* mutation: the loop skips the first entry the map yields
MissingInSourceSkipFirst(sf, df, order) ==
    MapSeq(SelectSeq(SubSeq(order, 2, Len(order)), LAMBDA k : k \notin DOMAIN sf), df)

\* for (rel_path, dest_entry) in &dest_files
MissingInSource(sf, df, order) ==
    MapSeq(SelectSeq(order, LAMBDA k : k \notin DOMAIN sf), df)

\* src.size != dest.size
SizeDiffers(src, dest) == src.size # dest.size

\* the filter closure's pushes to different_content
SizeDiffs(common) == SelectSeq(common, LAMBDA p : SizeDiffers(p[1], p[2]))

\* mutation: the filter keeps the pairs it has pushed
SameSizeCandidatesAll(common) == common

\* same_size_candidates
SameSizeCandidates(common) == SelectSeq(common, LAMBDA p : ~SizeDiffers(p[1], p[2]))

\* mutation: the shallow loop ignores the timestamps
ShallowDifferentSizeOnly(src, dest) == src.size # dest.size

\* src.size != dest.size || src.modified != dest.modified
ShallowDifferent(src, dest) == src.size # dest.size \/ src.modified # dest.modified

\* the shallow loop's pushes to different_content
ShallowDiffs(common) == SelectSeq(common, LAMBDA p : ShallowDifferent(p[1], p[2]))

(* ------------------------------------------------------------------ *)
(* Comparator: the hashing closure                                      *)
(* ------------------------------------------------------------------ *)
\* where one of the closure's four hash calls can fail (return None)
HashFailures == {"none", "partial_src", "partial_dest", "full_src", "full_dest"}

HashOutcome(r, c, f) == [res |-> r, calls |-> c, failed |-> f]

\* mutation: the closure stops after stage 1
HashPairPartialOnly(src, dest, fail) ==
    LET sp == calculate_partial_hash(FileAt(src.path).content)
        dp == calculate_partial_hash(FileAt(dest.path).content)
        c2 == {<<"partial", src.path>>, <<"partial", dest.path>>}
    IN  IF fail # "none" THEN HashOutcome(None, c2, TRUE)
        ELSE IF sp # dp THEN HashOutcome(Some(<<src, dest>>), c2, FALSE)
        ELSE HashOutcome(None, c2, FALSE)

\* mutation: the closure reports every candidate
HashPairAlwaysDifferent(src, dest, fail) ==
    HashOutcome(Some(<<src, dest>>), {}, fail # "none")

\* mutation: a candidate whose hash cannot be computed is reported
HashPairFailureIsDifferent(src, dest, fail) ==
    LET sc == FileAt(src.path).content
        dc == FileAt(dest.path).content
        c2 == {<<"partial", src.path>>, <<"partial", dest.path>>}
        c4 == c2 \cup {<<"full", src.path>>, <<"full", dest.path>>}
        sh == calculate_hash(sc)
        dh == calculate_hash(dc)
    IN  IF fail \in {"partial_src", "partial_dest"}
        THEN HashOutcome(Some(<<src, dest>>), c2, TRUE)
        ELSE IF calculate_partial_hash(sc) # calculate_partial_hash(dc)
             THEN HashOutcome(Some(<<src, dest>>), c2, FALSE)
        ELSE IF fail \in {"full_src", "full_dest"}
             THEN HashOutcome(Some(<<src, dest>>), c4, TRUE)
        ELSE IF sh # dh
             THEN HashOutcome(Some(<<[src EXCEPT !.hash = Some(sh)],
                                     [dest EXCEPT !.hash = Some(dh)]>>), c4, FALSE)
        ELSE HashOutcome(None, c4, FALSE)

\* mutation: stage 2 reports the pair without attaching the two hashes
HashPairNoAttach(src, dest, fail) ==
    LET sc == FileAt(src.path).content
        dc == FileAt(dest.path).content
        c1 == {<<"partial", src.path>>}
        c2 == c1 \cup {<<"partial", dest.path>>}
        c3 == c2 \cup {<<"full", src.path>>}
        c4 == c3 \cup {<<"full", dest.path>>}
    IN  IF fail = "partial_src" THEN HashOutcome(None, c1, TRUE)
        ELSE IF fail = "partial_dest" THEN HashOutcome(None, c2, TRUE)
        ELSE IF calculate_partial_hash(sc) # calculate_partial_hash(dc)
             THEN HashOutcome(Some(<<src, dest>>), c2, FALSE)
        ELSE IF fail = "full_src" THEN HashOutcome(None, c3, TRUE)
        ELSE IF fail = "full_dest" THEN HashOutcome(None, c4, TRUE)
        ELSE IF calculate_hash(sc) # calculate_hash(dc)
             THEN HashOutcome(Some(<<src, dest>>), c4, FALSE)
        ELSE HashOutcome(None, c4, FALSE)

\* mutation: the closure computes the two full hashes before it compares the
\* partial ones
HashPairEager(src, dest, fail) ==
    LET sc == FileAt(src.path).content
        dc == FileAt(dest.path).content
        c2 == {<<"partial", src.path>>, <<"partial", dest.path>>}
        c4 == c2 \cup {<<"full", src.path>>, <<"full", dest.path>>}
        sh == calculate_hash(sc)
        dh == calculate_hash(dc)
    IN  IF fail # "none" THEN HashOutcome(None, c4, TRUE)
        ELSE IF calculate_partial_hash(sc) # calculate_partial_hash(dc)
             THEN HashOutcome(Some(<<src, dest>>), c4, FALSE)
        ELSE IF sh # dh
             THEN HashOutcome(Some(<<[src EXCEPT !.hash = Some(sh)],
                                     [dest EXCEPT !.hash = Some(dh)]>>), c4, FALSE)
        ELSE HashOutcome(None, c4, FALSE)

\* the body of the filter_map closure after the progress report: what it
\* returns, the hash calls it made, and whether the chosen call failed
HashPair(src, dest, fail) ==
    LET sc == FileAt(src.path).content
        dc == FileAt(dest.path).content
        c1 == {<<"partial", src.path>>}
        c2 == c1 \cup {<<"partial", dest.path>>}
        c3 == c2 \cup {<<"full", src.path>>}
        c4 == c3 \cup {<<"full", dest.path>>}
    IN  IF fail = "partial_src" THEN HashOutcome(None, c1, TRUE)
        ELSE IF fail = "partial_dest" THEN HashOutcome(None, c2, TRUE)
        ELSE IF calculate_partial_hash(sc) # calculate_partial_hash(dc)
             THEN HashOutcome(Some(<<src, dest>>), c2, FALSE)
        ELSE IF fail = "full_src" THEN HashOutcome(None, c3, TRUE)
        ELSE IF fail = "full_dest" THEN HashOutcome(None, c4, TRUE)
        ELSE IF calculate_hash(sc) # calculate_hash(dc)
             THEN HashOutcome(
                    Some(<<[src EXCEPT !.hash = Some(calculate_hash(sc))],
                           [dest EXCEPT !.hash = Some(calculate_hash(dc))]>>),
                    c4, FALSE)
        ELSE HashOutcome(None, c4, FALSE)

\* if c % interval == 0 || c == total
ProgressDue(c, n, interval) == c % interval = 0 \/ c = n

\* .collect() of the filter_map: the Some values, in the candidates' order
RECURSIVE Collect(_, _)
Collect(f, n) ==
    IF n = 0 THEN <<>> ELSE Collect(f, n - 1) \o f[n]

AllDone == \A i \in DOMAIN task_pc : task_pc[i] = "done"
\* the items the pool hands to a free thread next: it splits the items into
\* ranges, so the model takes the first or the last item not yet started
\* (any item, while no more than two are left)
Pickable(i) ==
    /\ task_pc[i] = "todo"
    /\ \/ \A j \in DOMAIN task_pc : task_pc[j] = "todo" => i <= j
       \/ \A j \in DOMAIN task_pc : task_pc[j] = "todo" => j <= i
InFlight == Cardinality({i \in DOMAIN task_pc : task_pc[i] = "fetched"})

KeysOf(entries) == {entries[i].rel_path : i \in 1..Len(entries)}
PairKeysOf(pairs) == {pairs[i][1].rel_path : i \in 1..Len(pairs)}

\* what the history keeps of a finished comparison
NoRun == [valid |-> FALSE, deep |-> FALSE, failed |-> FALSE,
          mid |-> {}, mis |-> {}, dc |-> {}, value |-> EmptyResult,
          synced |-> FALSE, sync_failed |-> FALSE]
RunOf(r) == [valid |-> TRUE, deep |-> check_content, failed |-> run_failed,
             mid |-> KeysOf(r.missing_in_dest), mis |-> KeysOf(r.missing_in_source),
             dc |-> PairKeysOf(r.different_content), value |-> r,
             synced |-> FALSE, sync_failed |-> FALSE]

(* ------------------------------------------------------------------ *)
(* run_comparison                                                       *)
(* ------------------------------------------------------------------ *)
\* no run_comparison or run_sync call has been made
EngineIdle ==
    /\ pc = "idle"
    /\ check_content = FALSE
    /\ scanned = {}
    /\ source_files = <<>>
    /\ dest_files = <<>>
    /\ missing_in_dest = <<>>
    /\ missing_in_source = <<>>
    /\ different_content = <<>>
    /\ candidates = <<>>
    /\ tasks = <<>>
    /\ delete_tasks = <<>>
    /\ delete_extra = FALSE
    /\ task_pc = <<>>
    /\ task_c = <<>>
    /\ hashed_diffs = <<>>
    /\ counter = 0
    /\ total = 0
    /\ chan = <<>>
    /\ results = EmptyResult
    /\ hash_calls = {}
    /\ run_failed = FALSE
    /\ io_failed = {}
    /\ prev = NoRun
    /\ last = NoRun
    /\ dst_at_sync = <<>>

\* FolderCompareApp::default()
AppIdle ==
    /\ is_scanning = FALSE
    /\ is_syncing = FALSE
    /\ app_results = None
    /\ app_delete_extra = FALSE
    /\ confirm_sync_open = FALSE
    /\ rx = 0
    /\ result_rx = 0
    /\ status_queue = <<>>
    /\ result_queue = <<>>
    /\ threads = <<>>
    /\ frame = "poll"

Init ==
    /\ \/ srcFS \in SourceTrees /\ dstFS \in DestTrees /\ nfail = MaxFaults
       \/ srcFS \in FaultySourceTrees /\ dstFS \in FaultyDestTrees /\ nfail = 0
    /\ roots = Roots
    /\ EngineIdle
    /\ AppIdle

\* run_comparison is called: tx.send(ScanningBoth) on a fresh channel. The
\* caller of a behaviour compares, may sync, and may compare once more.
StartComparison(check) ==
    /\ pc \in {"idle", "ready", "synced"}
    /\ ~prev.valid
    /\ check_content' = check
    /\ chan' = <<ScanningBoth>>
    /\ scanned' = {}
    /\ source_files' = <<>>
    /\ dest_files' = <<>>
    /\ hash_calls' = {}
    /\ run_failed' = FALSE
    /\ io_failed' = {}
    /\ counter' = 0
    /\ total' = 0
    /\ pc' = "scan"
    /\ UNCHANGED <<appVars, fsVars, missing_in_dest, missing_in_source, different_content,
                   candidates, hashed_diffs, syncLocals, task_pc, task_c,
                   results, nfail, histVars>>

\* rayon::join(|| scan_folder(&source), || scan_folder(&dest)): both scans
\* read trees that nothing writes meanwhile, so their interleaving is one step
ScanBoth ==
    /\ pc = "scan"
    /\ scanned = {}
    /\ \E ds \in SUBSET DOMAIN srcFS, dd \in SUBSET DOMAIN dstFS :
        /\ nfail + Cardinality(ds) + Cardinality(dd) <= MaxFaults
        /\ nfail' = nfail + Cardinality(ds) + Cardinality(dd)
        /\ run_failed' = (run_failed \/ ds # {} \/ dd # {})
        /\ io_failed' = io_failed \cup {<<"scan", <<"src", k>>>> : k \in ds}
                                 \cup {<<"scan", <<"dst", k>>>> : k \in dd}
        /\ source_files' = scan_folder("src", ds)
        /\ dest_files' = scan_folder("dst", dd)
    /\ scanned' = {"src", "dst"}
    /\ UNCHANGED <<appVars, fsVars, pc, check_content, missing_in_dest, missing_in_source,
                   different_content, candidates, hashed_diffs, syncLocals,
                   task_pc, task_c, counter, total, chan, results, hash_calls,
                   histVars>>

\* the partition loops and the size filter (deep) or the shallow loop
Classify ==
    /\ pc = "scan"
    /\ scanned = {"src", "dst"}
    /\ \E so \in IterationOrders(DOMAIN source_files),
          do \in IterationOrders(DOMAIN dest_files) :
        LET common == CommonFiles(source_files, dest_files, so)
            same   == SameSizeCandidates(common)
        IN  /\ missing_in_dest' = MissingInDest(source_files, dest_files, so)
            /\ missing_in_source' = MissingInSource(source_files, dest_files, do)
            /\ IF check_content
               THEN /\ different_content' = SizeDiffs(common)
                    /\ candidates' = same
                    /\ total' = Len(same)
                    /\ task_pc' = [i \in 1..Len(same) |-> "todo"]
                    /\ task_c' = [i \in 1..Len(same) |-> 0]
                    /\ hashed_diffs' = [i \in 1..Len(same) |-> None]
                    /\ pc' = "hash"
               ELSE /\ different_content' = ShallowDiffs(common)
                    /\ pc' = "finish"
                    /\ UNCHANGED <<candidates, total, task_pc, task_c, hashed_diffs>>
    /\ counter' = 0
    /\ UNCHANGED <<appVars, fsVars, check_content, scanned, source_files, dest_files,
                   syncLocals, chan, results, hash_calls, nfail, run_failed, io_failed,
                   histVars>>

\* a pool thread enters the closure for candidate i: counter.fetch_add(1) + 1
HashFetch(i) ==
    /\ pc = "hash"
    /\ Pickable(i)
    /\ InFlight < NumThreads
    /\ counter' = counter + 1
    /\ task_c' = [task_c EXCEPT ![i] = counter + 1]
    /\ task_pc' = [task_pc EXCEPT ![i] = "fetched"]
    /\ UNCHANGED <<appVars, fsVars, pc, check_content, scanned, compareLocals, syncLocals,
                   total, chan, results, hash_calls, nfail, run_failed, io_failed,
                   histVars>>

\* the rest of the closure for candidate i: the progress report, then the
\* two hashing stages
HashWork(i) ==
    /\ pc = "hash"
    /\ task_pc[i] = "fetched"
    /\ \E fail \in HashFailures :
        LET out == HashPair(candidates[i][1], candidates[i][2], fail)
        IN  /\ fail # "none" => nfail < MaxFaults /\ out.failed
            /\ nfail' = IF fail # "none" THEN nfail + 1 ELSE nfail
            /\ run_failed' = (run_failed \/ out.failed)
            /\ io_failed' = IF out.failed
                            THEN io_failed \cup {<<"hash", candidates[i][1].path>>}
                            ELSE io_failed
            /\ hashed_diffs' = [hashed_diffs EXCEPT ![i] = out.res]
            /\ hash_calls' = hash_calls \cup out.calls
    /\ chan' = IF ProgressDue(task_c[i], total, HASH_INTERVAL)
               THEN Append(chan, Hashing(task_c[i], total))
               ELSE chan
    /\ task_pc' = [task_pc EXCEPT ![i] = "done"]
    /\ task_c' = [task_c EXCEPT ![i] = 0]
    /\ UNCHANGED <<appVars, fsVars, pc, check_content, scanned, source_files, dest_files,
                   missing_in_dest, missing_in_source, different_content,
                   candidates, syncLocals, counter, total, results,
                   histVars>>

\* mutation: run_comparison returns without sending Complete
FinishComparisonSilent ==
    /\ \/ pc = "hash" /\ AllDone
       \/ pc = "finish"
    /\ different_content' =
           IF pc = "hash"
           THEN different_content \o Collect(hashed_diffs, Len(candidates))
           ELSE different_content
    /\ chan' = chan
    /\ pc' = "complete"
    /\ UNCHANGED <<appVars, fsVars, check_content, scanned, source_files, dest_files,
                   missing_in_dest, missing_in_source, candidates, hashed_diffs,
                   syncLocals, task_pc, task_c, counter, total, results,
                   hash_calls, nfail, run_failed, io_failed, histVars>>

\* different_content.extend(hashed_diffs) in deep mode; tx.send(Complete)
FinishComparison ==
    /\ \/ pc = "hash" /\ AllDone
       \/ pc = "finish"
    /\ different_content' =
           IF pc = "hash"
           THEN different_content \o Collect(hashed_diffs, Len(candidates))
           ELSE different_content
    /\ chan' = Append(chan, Complete)
    /\ pc' = "complete"
    /\ UNCHANGED <<appVars, fsVars, check_content, scanned, source_files, dest_files,
                   missing_in_dest, missing_in_source, candidates, hashed_diffs,
                   syncLocals, task_pc, task_c, counter, total, results,
                   hash_calls, nfail, run_failed, io_failed, histVars>>

\* Ok(CompareResult { .. }): the locals become the returned value
ReturnResult ==
    /\ pc = "complete"
    /\ results' = CompareResult(missing_in_dest, missing_in_source, different_content)
    /\ prev' = last
    /\ last' = RunOf(results')
    /\ missing_in_dest' = <<>>
    /\ missing_in_source' = <<>>
    /\ different_content' = <<>>
    /\ candidates' = <<>>
    /\ hashed_diffs' = <<>>
    /\ task_pc' = <<>>
    /\ task_c' = <<>>
    /\ pc' = "ready"
    /\ UNCHANGED <<appVars, fsVars, check_content, scanned, source_files, dest_files,
                   syncLocals, counter, total, chan, hash_calls, nfail,
                   run_failed, io_failed, dst_at_sync>>

CompareNext ==
    \/ \E check \in BOOLEAN : StartComparison(check)
    \/ ScanBoth
    \/ Classify
    \/ \E i \in DOMAIN task_pc : HashFetch(i)
    \/ \E i \in DOMAIN task_pc : HashWork(i)
    \/ FinishComparison
    \/ ReturnResult

(* ------------------------------------------------------------------ *)
(* run_sync                                                             *)
(* ------------------------------------------------------------------ *)
\* mutation: the relative key is not joined, every task gets one path
DestPathSame(rel_path) == <<"dst", 1>>

\* dest_root.join(&entry.rel_path)
DestPath(rel_path) == <<"dst", rel_path>>

Task(from, to) == [from |-> from, to |-> to]

\* mutation: no task for the different_content pairs
CopyTasksMissingOnly(r) ==
    [i \in 1..Len(r.missing_in_dest) |->
        Task(r.missing_in_dest[i].path, DestPath(r.missing_in_dest[i].rel_path))]

\* 1. and 2.: a copy task per missing_in_dest entry, then one per
\* different_content pair, from the source entry
CopyTasks(r) ==
    [i \in 1..Len(r.missing_in_dest) |->
        Task(r.missing_in_dest[i].path, DestPath(r.missing_in_dest[i].rel_path))]
    \o
    [i \in 1..Len(r.different_content) |->
        Task(r.different_content[i][1].path,
             DestPath(r.different_content[i][1].rel_path))]

\* mutation: the delete tasks are the paths of missing_in_dest, source side
DeleteTasksSourceSide(r, de) ==
    IF de
    THEN [i \in 1..Len(r.missing_in_dest) |-> r.missing_in_dest[i].path]
    ELSE <<>>

\* mutation: no delete task is ever prepared
DeleteTasksNever(r, de) == <<>>

\* 3.: if delete_extra, the path of every missing_in_source entry
DeleteTasks(r, de) ==
    IF de
    THEN [i \in 1..Len(r.missing_in_source) |-> r.missing_in_source[i].path]
    ELSE <<>>

\* the mtime std::fs::copy leaves on the written file: the time of the copy
\* (on Linux the copy does not carry the source's timestamps over)
CopyTimes(from) == {CopyTime}

CopyDone == \A i \in 1..Len(tasks) : task_pc[i] = "done"

\* run_sync is called with the CompareResult of the first comparison, on a
\* fresh channel
StartSync(de) ==
    /\ pc = "ready"
    /\ ~prev.valid
    /\ tasks' = CopyTasks(results)
    /\ delete_tasks' = DeleteTasks(results, de)
    /\ delete_extra' = de
    /\ total' = Len(tasks') + Len(delete_tasks')
    /\ counter' = 0
    /\ task_pc' = [i \in 1..total' |-> "todo"]
    /\ task_c' = [i \in 1..total' |-> 0]
    /\ chan' = <<>>
    /\ run_failed' = FALSE
    /\ io_failed' = {}
    /\ last' = [last EXCEPT !.synced = TRUE]
    /\ dst_at_sync' = dstFS
    /\ pc' = "sync"
    /\ UNCHANGED <<appVars, fsVars, check_content, scanned, compareLocals, results,
                   hash_calls, nfail, prev>>

\* a pool thread enters the copy closure for task i: counter.fetch_add(1) + 1
CopyFetch(i) ==
    /\ pc = "sync"
    /\ i <= Len(tasks)
    /\ Pickable(i)
    /\ InFlight < NumThreads
    /\ counter' = counter + 1
    /\ task_c' = [task_c EXCEPT ![i] = counter + 1]
    /\ task_pc' = [task_pc EXCEPT ![i] = "fetched"]
    /\ UNCHANGED <<appVars, fsVars, pc, check_content, scanned, compareLocals, syncLocals,
                   total, chan, results, hash_calls, nfail, run_failed, io_failed, histVars>>

\* mutation: the first failing copy ends the whole batch (try_for_each)
CopyWorkAbortOnFailure(i) ==
    /\ pc = "sync"
    /\ i <= Len(tasks)
    /\ task_pc[i] = "fetched"
    /\ chan' = IF ProgressDue(task_c[i], total, SYNC_INTERVAL)
               THEN Append(chan, Syncing(task_c[i], total))
               ELSE chan
    /\ \/ /\ Exists(tasks[i].from)
          /\ dstFS' = Put(dstFS, tasks[i].to[2],
                          File(FileAt(tasks[i].from).content, CopyTime))
          /\ task_pc' = [task_pc EXCEPT ![i] = "done"]
          /\ task_c' = [task_c EXCEPT ![i] = 0]
          /\ roots' = roots \cup {"dst"}
          /\ UNCHANGED <<srcFS, nfail, run_failed, io_failed, counter>>
       \/ /\ nfail < MaxFaults \/ ~Exists(tasks[i].from)
          /\ nfail' = IF Exists(tasks[i].from) THEN nfail + 1 ELSE nfail
          /\ run_failed' = TRUE
          /\ io_failed' = io_failed \cup {<<"copy", tasks[i].to>>}
          /\ task_pc' = [j \in DOMAIN task_pc |-> "done"]
          /\ task_c' = [j \in DOMAIN task_c |-> 0]
          /\ counter' = total
          /\ UNCHANGED fsVars
    /\ UNCHANGED <<appVars, pc, check_content, scanned, compareLocals, syncLocals,
                   total, results, hash_calls, histVars>>

\* the rest of the copy closure: the progress report, create_dir_all of the
\* parent (the destination root, as keys have no directory part), fs::copy
CopyWork(i) ==
    /\ pc = "sync"
    /\ i <= Len(tasks)
    /\ task_pc[i] = "fetched"
    /\ chan' = IF ProgressDue(task_c[i], total, SYNC_INTERVAL)
               THEN Append(chan, Syncing(task_c[i], total))
               ELSE chan
    /\ \/ /\ Exists(tasks[i].from)
          /\ \E m \in CopyTimes(tasks[i].from) :
               LET f == File(FileAt(tasks[i].from).content, m)
               IN  IF tasks[i].to[1] = "dst"
                   THEN dstFS' = Put(dstFS, tasks[i].to[2], f) /\ UNCHANGED srcFS
                   ELSE srcFS' = Put(srcFS, tasks[i].to[2], f) /\ UNCHANGED dstFS
          /\ roots' = roots \cup {tasks[i].to[1]}
          /\ UNCHANGED <<nfail, run_failed, io_failed>>
       \/ /\ nfail < MaxFaults \/ ~Exists(tasks[i].from)
          /\ nfail' = IF Exists(tasks[i].from) THEN nfail + 1 ELSE nfail
          /\ run_failed' = TRUE
          /\ io_failed' = io_failed \cup {<<"copy", tasks[i].to>>}
          /\ UNCHANGED fsVars
    /\ task_pc' = [task_pc EXCEPT ![i] = "done"]
    /\ task_c' = [task_c EXCEPT ![i] = 0]
    /\ UNCHANGED <<appVars, pc, check_content, scanned, compareLocals, syncLocals,
                   counter, total, results, hash_calls, histVars>>

\* a pool thread enters the delete closure, after every copy task is done
DeleteFetch(j) ==
    /\ pc = "sync"
    /\ CopyDone
    /\ j > Len(tasks)
    /\ Pickable(j)
    /\ InFlight < NumThreads
    /\ counter' = counter + 1
    /\ task_c' = [task_c EXCEPT ![j] = counter + 1]
    /\ task_pc' = [task_pc EXCEPT ![j] = "fetched"]
    /\ UNCHANGED <<appVars, fsVars, pc, check_content, scanned, compareLocals, syncLocals,
                   total, chan, results, hash_calls, nfail, run_failed, io_failed, histVars>>

\* the rest of the delete closure: the progress report, fs::remove_file
DeleteWork(j) ==
    /\ pc = "sync"
    /\ j > Len(tasks)
    /\ task_pc[j] = "fetched"
    /\ chan' = IF ProgressDue(task_c[j], total, SYNC_INTERVAL)
               THEN Append(chan, Syncing(task_c[j], total))
               ELSE chan
    /\ LET path == delete_tasks[j - Len(tasks)] IN
       \/ /\ Exists(path)
          /\ IF path[1] = "dst"
             THEN dstFS' = Remove(dstFS, path[2]) /\ UNCHANGED srcFS
             ELSE srcFS' = Remove(srcFS, path[2]) /\ UNCHANGED dstFS
          /\ UNCHANGED roots
          /\ UNCHANGED <<nfail, run_failed, io_failed>>
       \/ /\ nfail < MaxFaults \/ ~Exists(path)
          /\ nfail' = IF Exists(path) THEN nfail + 1 ELSE nfail
          /\ run_failed' = TRUE
          /\ io_failed' = io_failed \cup {<<"delete", path>>}
          /\ UNCHANGED fsVars
    /\ task_pc' = [task_pc EXCEPT ![j] = "done"]
    /\ task_c' = [task_c EXCEPT ![j] = 0]
    /\ UNCHANGED <<appVars, pc, check_content, scanned, compareLocals, syncLocals,
                   counter, total, results, hash_calls, histVars>>

\* mutation: a run in which a task failed returns without sending Complete
SyncCompleteUnlessFailed ==
    /\ pc = "sync"
    /\ AllDone
    /\ chan' = IF run_failed THEN chan ELSE Append(chan, Complete)
    /\ tasks' = <<>>
    /\ delete_tasks' = <<>>
    /\ task_pc' = <<>>
    /\ task_c' = <<>>
    /\ pc' = "synced"
    /\ last' = [last EXCEPT !.sync_failed = run_failed]
    /\ UNCHANGED <<appVars, fsVars, check_content, scanned, compareLocals, delete_extra,
                   counter, total, results, hash_calls, nfail, run_failed, io_failed,
                   prev, dst_at_sync>>

\* both for_each calls have returned: tx.send(Complete); Ok(())
SyncComplete ==
    /\ pc = "sync"
    /\ AllDone
    /\ chan' = Append(chan, Complete)
    /\ tasks' = <<>>
    /\ delete_tasks' = <<>>
    /\ task_pc' = <<>>
    /\ task_c' = <<>>
    /\ pc' = "synced"
    /\ last' = [last EXCEPT !.sync_failed = run_failed]
    /\ UNCHANGED <<appVars, fsVars, check_content, scanned, compareLocals, delete_extra,
                   counter, total, results, hash_calls, nfail, run_failed, io_failed,
                   prev, dst_at_sync>>

SyncNext ==
    \/ \E de \in BOOLEAN : StartSync(de)
    \/ \E i \in DOMAIN task_pc : CopyFetch(i)
    \/ \E i \in DOMAIN task_pc : CopyWork(i)
    \/ \E j \in DOMAIN task_pc : DeleteFetch(j)
    \/ \E j \in DOMAIN task_pc : DeleteWork(j)
    \/ SyncComplete

Next == CompareNext \/ SyncNext
Spec == Init /\ [][Next]_vars

(* ------------------------------------------------------------------ *)
(* run_sync on many tasks: the progress reports of two pool threads     *)
(* ------------------------------------------------------------------ *)
\* run_sync is called with the CompareResult of a source tree of nc files
\* and a destination tree of nd other files, and no I/O fails
ProgressInit ==
    \E nc \in 0..MaxTasks :
        LET nd == MaxTasks - nc IN
        /\ srcFS = [k \in 1..nc |-> File(FileZ, 1)]
        /\ dstFS = [k \in (nc + 1)..(nc + nd) |-> File(FileZ, 1)]
        /\ roots = Roots
        /\ source_files = [k \in 1..nc |-> FileEntry("src", k, File(FileZ, 1))]
        /\ dest_files = [k \in (nc + 1)..(nc + nd) |-> FileEntry("dst", k, File(FileZ, 1))]
        /\ results = CompareResult(
                        [i \in 1..nc |-> source_files[i]],
                        [i \in 1..nd |-> dest_files[nc + i]],
                        <<>>)
        /\ last = [NoRun EXCEPT !.valid = TRUE, !.value = results,
                                !.mid = KeysOf(results.missing_in_dest),
                                !.mis = KeysOf(results.missing_in_source)]
        /\ prev = NoRun
        /\ pc = "ready"
        /\ check_content = FALSE
        /\ scanned = {"src", "dst"}
        /\ missing_in_dest = <<>>
        /\ missing_in_source = <<>>
        /\ different_content = <<>>
        /\ candidates = <<>>
        /\ tasks = <<>>
        /\ delete_tasks = <<>>
        /\ delete_extra = FALSE
        /\ task_pc = <<>>
        /\ task_c = <<>>
        /\ hashed_diffs = <<>>
        /\ counter = 0
        /\ total = 0
        /\ chan = <<ScanningBoth, Complete>>
        /\ hash_calls = {}
        /\ nfail = MaxFaults
        /\ run_failed = FALSE
        /\ io_failed = {}
        /\ dst_at_sync = <<>>
        /\ AppIdle

ProgressSpec == ProgressInit /\ [][SyncNext]_vars

(* ------------------------------------------------------------------ *)
(* run_comparison and run_sync on roots that may not exist              *)
(* ------------------------------------------------------------------ *)
\* the caller passes two paths of which any may name no directory; a root
\* that does not exist has no files below it. No I/O on a file fails.
RootInit ==
    /\ roots \in SUBSET Roots
    /\ srcFS \in IF "src" \in roots THEN FaultySourceTrees ELSE {<<>>}
    /\ dstFS \in IF "dst" \in roots THEN FaultyDestTrees ELSE {<<>>}
    /\ nfail = MaxFaults
    /\ EngineIdle
    /\ AppIdle

RootSpec == RootInit /\ [][Next]_vars

(* ------------------------------------------------------------------ *)
(* run_comparison on files around the sizes 16 KiB and 32 KiB           *)
(* ------------------------------------------------------------------ *)
\* contents of 100, 16385, 32768 and 32769 bytes that agree or differ in
\* their first 16 KiB, in their last 16 KiB, or in between
HashFiles ==
    { <<Run(0, 100)>>,
      <<Run(1, 100)>>,
      <<Run(0, PARTIAL_BUF + 1)>>,
      <<Run(0, PARTIAL_BUF), Run(1, 1)>>,
      <<Run(0, TAIL_THRESHOLD)>>,
      <<Run(0, PARTIAL_BUF), Run(1, PARTIAL_BUF)>>,
      <<Run(1, PARTIAL_BUF), Run(0, PARTIAL_BUF)>>,
      <<Run(0, TAIL_THRESHOLD + 1)>>,
      <<Run(0, PARTIAL_BUF), Run(1, 1), Run(0, PARTIAL_BUF)>>,
      <<Run(0, TAIL_THRESHOLD), Run(1, 1)>> }

\* one file under the same key in each tree, and at times a second file in
\* the destination only; no I/O fails
HashInit ==
    /\ \E a, b \in HashFiles, extra \in BOOLEAN :
        /\ srcFS = Put(<<>>, 1, File(a, 1))
        /\ dstFS = IF extra
                   THEN Put(Put(<<>>, 1, File(b, 1)), 2, File(FileZ, 1))
                   ELSE Put(<<>>, 1, File(b, 1))
    /\ roots = Roots
    /\ nfail = MaxFaults
    /\ EngineIdle
    /\ AppIdle

HashSpec == HashInit /\ [][Next]_vars

(* ------------------------------------------------------------------ *)
(* FolderCompareApp: update(), start_comparison, start_sync             *)
(* ------------------------------------------------------------------ *)
\* mutation: bounded(1), a send waits while an event is in the channel
CanSendBounded(queue) == Len(queue) < 1

\* unbounded(): a send never waits for room in the channel
CanSend(queue) == TRUE

\* tx.send(e).ok() by thread t: the event is queued if the receiver of the
\* thread's channel is still held, else send fails and .ok() drops the error
Send(queue, held, e) == IF held THEN Append(queue, e) ELSE queue

\* a spawned thread: what it runs, where it is, run_sync's delete_extra, and
\* as history the click that spawned it, whether is_scanning or is_syncing
\* was set then, and how many of its events were never received
Thread(kind, de, by, busy) ==
    [kind |-> kind, at |-> "start", delete_extra |-> de, by |-> by,
     busy |-> busy, lost |-> 0]

\* what a thread sends next on its status channel and where that leaves it:
\* run_comparison sends ScanningBoth, Hashing events if candidates are
\* hashed, Complete; run_sync sends Syncing events if it has tasks, Complete
WorkerMoves(th) ==
    IF th.kind = "compare"
    THEN CASE th.at = "start" -> {<<ScanningBoth, "scanning">>}
           [] th.at = "scanning" -> {<<Hashing(1, 1), "hashing">>, <<Complete, "completed">>}
           [] th.at = "hashing" -> {<<Complete, "completed">>}
           [] OTHER -> {}
    ELSE CASE th.at = "start" -> {<<Syncing(1, 1), "syncing">>, <<Complete, "done">>}
           [] th.at = "syncing" -> {<<Complete, "done">>}
           [] OTHER -> {}

\* thread t sends its next status event
WorkerSend(t) ==
    /\ t \in DOMAIN threads
    /\ \E m \in WorkerMoves(threads[t]) :
        /\ rx = t => CanSend(status_queue)
        /\ status_queue' = Send(status_queue, rx = t, m[1])
        /\ threads' = [threads EXCEPT ![t].at = m[2],
                                      ![t].lost = IF rx = t THEN @ ELSE @ + 1]
    /\ UNCHANGED <<engineVars, is_scanning, is_syncing, app_results,
                   app_delete_extra, confirm_sync_open, rx, result_rx,
                   result_queue, frame>>

\* res_tx.send(res).ok(): comparison thread t hands over what run_comparison
\* returned, and ends
WorkerReturn(t) ==
    /\ t \in DOMAIN threads
    /\ threads[t].kind = "compare"
    /\ threads[t].at = "completed"
    /\ result_rx = t => CanSend(result_queue)
    /\ result_queue' = Send(result_queue, result_rx = t, t)
    /\ threads' = [threads EXCEPT ![t].at = "done"]
    /\ UNCHANGED <<engineVars, is_scanning, is_syncing, app_results,
                   app_delete_extra, confirm_sync_open, rx, result_rx,
                   status_queue, frame>>

\* update(), first part: while let Ok(status) = rx.try_recv(); of the events
\* only Complete changes a field other than status_msg and progress
PollStatus ==
    /\ frame = "poll"
    /\ is_syncing' = IF \E i \in 1..Len(status_queue) : status_queue[i] = Complete
                     THEN FALSE
                     ELSE is_syncing
    /\ status_queue' = <<>>
    /\ frame' = "ui"
    /\ UNCHANGED <<engineVars, is_scanning, app_results, app_delete_extra,
                   confirm_sync_open, rx, result_rx, result_queue, threads>>

\* update(), second part: if let Ok(res) = result_rx.try_recv()
ResultArrived == result_rx # 0 /\ result_queue # <<>>
polled_is_scanning == IF ResultArrived THEN FALSE ELSE is_scanning
polled_results == IF ResultArrived THEN Some(result_queue[1]) ELSE app_results
polled_rx == IF ResultArrived THEN 0 ELSE rx
polled_result_rx == IF ResultArrived THEN 0 ELSE result_rx
polled_status_queue == IF ResultArrived THEN <<>> ELSE status_queue
polled_result_queue == IF ResultArrived THEN <<>> ELSE result_queue

\* the receiver r is dropped: the events waiting in its channel are never
\* received (history)
Discard(ths, r, queue) ==
    IF r # 0 /\ queue # <<>>
    THEN [ths EXCEPT ![r].lost = @ + Len(queue)]
    ELSE ths

\* self.rx = None on the arrival of the result
polled_threads == IF ResultArrived THEN Discard(threads, rx, status_queue) ELSE threads

\* the fields as the polling left them
KeepPolled ==
    /\ is_scanning' = polled_is_scanning
    /\ app_results' = polled_results
    /\ rx' = polled_rx
    /\ result_rx' = polled_result_rx
    /\ status_queue' = polled_status_queue
    /\ result_queue' = polled_result_queue
    /\ threads' = polled_threads

\* start_comparison(): nothing but a message if a path does not exist
start_comparison(exist) ==
    IF ~exist
    THEN KeepPolled
    ELSE /\ Len(threads) < MaxRuns
         /\ is_scanning' = TRUE
         /\ app_results' = None
         /\ rx' = Len(threads) + 1
         /\ result_rx' = Len(threads) + 1
         /\ status_queue' = <<>>
         /\ result_queue' = <<>>
         /\ threads' = Append(Discard(polled_threads, polled_rx, polled_status_queue),
                             Thread("compare", FALSE, "START",
                                           polled_is_scanning \/ is_syncing))

\* start_sync(), called for the click on `by`
start_sync(by) ==
    IF polled_results = None
    THEN KeepPolled /\ UNCHANGED is_syncing
    ELSE /\ Len(threads) < MaxRuns
         /\ is_syncing' = TRUE
         /\ rx' = Len(threads) + 1
         /\ status_queue' = <<>>
         /\ threads' = Append(Discard(polled_threads, polled_rx, polled_status_queue),
                             Thread("sync", app_delete_extra, by,
                                           polled_is_scanning \/ is_syncing))
         /\ is_scanning' = polled_is_scanning
         /\ app_results' = polled_results
         /\ result_rx' = polled_result_rx
         /\ result_queue' = polled_result_queue

\* a frame in which no widget of interest is clicked
NoClick ==
    /\ frame = "ui"
    /\ KeepPolled
    /\ frame' = "poll"
    /\ UNCHANGED <<engineVars, is_syncing, app_delete_extra, confirm_sync_open>>

\* ui.checkbox(&mut self.delete_extra, ..) is clicked
ToggleDeleteExtra ==
    /\ frame = "ui"
    /\ KeepPolled
    /\ app_delete_extra' = ~app_delete_extra
    /\ frame' = "poll"
    /\ UNCHANGED <<engineVars, is_syncing, confirm_sync_open>>

\* START COMPARISON, enabled if !self.is_scanning, is clicked
ClickStartComparison(exist) ==
    /\ frame = "ui"
    /\ ~polled_is_scanning
    /\ start_comparison(exist)
    /\ frame' = "poll"
    /\ UNCHANGED <<engineVars, is_syncing, app_delete_extra, confirm_sync_open>>

\* mutation: the sync button starts the sync whatever the checkbox says
ClickSyncNoConfirm ==
    /\ frame = "ui"
    /\ ~polled_is_scanning
    /\ ~is_syncing
    /\ polled_results # None
    /\ start_sync("SYNC")
    /\ frame' = "poll"
    /\ UNCHANGED <<engineVars, app_delete_extra, confirm_sync_open>>

\* SYNC TO DESTINATION, shown if neither flag is set and there are results,
\* is clicked
ClickSync ==
    /\ frame = "ui"
    /\ ~polled_is_scanning
    /\ ~is_syncing
    /\ polled_results # None
    /\ IF app_delete_extra
       THEN /\ confirm_sync_open' = TRUE
            /\ KeepPolled
            /\ UNCHANGED is_syncing
       ELSE /\ start_sync("SYNC")
            /\ UNCHANGED confirm_sync_open
    /\ frame' = "poll"
    /\ UNCHANGED <<engineVars, app_delete_extra>>

\* PROCEED in the confirmation window: do_sync
ClickProceed ==
    /\ frame = "ui"
    /\ confirm_sync_open
    /\ confirm_sync_open' = FALSE
    /\ start_sync("PROCEED")
    /\ frame' = "poll"
    /\ UNCHANGED <<engineVars, app_delete_extra>>

\* CANCEL in the confirmation window
ClickCancel ==
    /\ frame = "ui"
    /\ confirm_sync_open
    /\ confirm_sync_open' = FALSE
    /\ KeepPolled
    /\ frame' = "poll"
    /\ UNCHANGED <<engineVars, is_syncing, app_delete_extra>>

\* the GUI has just been constructed; the engine's own state plays no part
AppInit ==
    /\ srcFS = <<>>
    /\ dstFS = <<>>
    /\ roots = Roots
    /\ nfail = MaxFaults
    /\ EngineIdle
    /\ AppIdle

AppNext ==
    \/ PollStatus
    \/ NoClick
    \/ ToggleDeleteExtra
    \/ \E exist \in BOOLEAN : ClickStartComparison(exist)
    \/ ClickSync
    \/ ClickProceed
    \/ ClickCancel
    \/ \E t \in 1..MaxRuns : WorkerSend(t)
    \/ \E t \in 1..MaxRuns : WorkerReturn(t)

AppSpec == AppInit /\ [][AppNext]_vars

\* every spawned thread keeps being scheduled; nothing is assumed of the
\* frames of the GUI
FairAppSpec ==
    /\ AppSpec
    /\ \A t \in 1..MaxRuns : WF_vars(WorkerSend(t)) /\ WF_vars(WorkerReturn(t))

\* the widgets part of a frame, whatever is clicked in it
FinishFrame ==
    \/ NoClick
    \/ ToggleDeleteExtra
    \/ \E exist \in BOOLEAN : ClickStartComparison(exist)
    \/ ClickSync
    \/ ClickProceed
    \/ ClickCancel

\* fair polling: the threads keep being scheduled and update() keeps being
\* called (ctx.request_repaint_after while is_scanning || is_syncing); no
\* click is ever bound to happen
FairPollSpec ==
    /\ FairAppSpec
    /\ WF_vars(PollStatus)
    /\ WF_vars(FinishFrame)

(* ------------------------------------------------------------------ *)
(* Properties                                                           *)
(* ------------------------------------------------------------------ *)
\* how often relative key k occurs in a Vec<FileEntry> / a Vec of pairs
Count(entries, k) ==
    Cardinality({i \in 1..Len(entries) : entries[i].rel_path = k})
PairCount(pairs, k) ==
    Cardinality({i \in 1..Len(pairs) : pairs[i][1].rel_path = k})

\* run_comparison has just returned `results` for the snapshots
\* source_files and dest_files
Returned == pc = "ready"
ScannedKeys == DOMAIN source_files \cup DOMAIN dest_files
InBoth == DOMAIN source_files \cap DOMAIN dest_files
Events(t) == SelectSeq(chan, LAMBDA e : e.type = t)
HashCallsOn(k) == {c \in hash_calls : c[2][2] = k}

\* C1: when run_comparison returns (deep or shallow), a key that only the
\* source snapshot holds is in missing_in_dest exactly once and in neither
\* other collection, and a key that only the destination snapshot holds is in
\* missing_in_source exactly once and in neither other collection.
C1_OneTreeKeys ==
    Returned =>
        \A k \in ScannedKeys :
            /\ k \notin DOMAIN dest_files =>
                 /\ Count(results.missing_in_dest, k) = 1
                 /\ Count(results.missing_in_source, k) = 0
                 /\ PairCount(results.different_content, k) = 0
            /\ k \notin DOMAIN source_files =>
                 /\ Count(results.missing_in_source, k) = 1
                 /\ Count(results.missing_in_dest, k) = 0
                 /\ PairCount(results.different_content, k) = 0

\* a comparison returned for trees with a source-only and a destination-only key
C1_Witness ==
    /\ Returned
    /\ DOMAIN source_files \ DOMAIN dest_files # {}
    /\ DOMAIN dest_files \ DOMAIN source_files # {}

\* C2: in every returned CompareResult each relative key occurs at most once
\* in the three collections taken together.
C2_Disjoint ==
    Returned =>
        \A k \in ScannedKeys :
            Count(results.missing_in_dest, k) + Count(results.missing_in_source, k)
                + PairCount(results.different_content, k) <= 1

\* a deep comparison returned two different pairs, one rejected by its size
\* and one by the hashing workers
C2_Witness ==
    /\ Returned
    /\ check_content
    /\ Len(results.different_content) = 2
    /\ \E k \in InBoth : source_files[k].size # dest_files[k].size
    /\ hash_calls # {}

\* C3: when run_comparison returns, every key scanned in both trees with
\* entries of different size is in different_content, and no hash function
\* was called on either of its two files.
C3_SizeShortCircuit ==
    Returned =>
        \A k \in InBoth :
            source_files[k].size # dest_files[k].size =>
                /\ PairCount(results.different_content, k) = 1
                /\ HashCallsOn(k) = {}

\* a deep comparison returned for a pair of different size, having hashed
\* another pair
C3_Witness ==
    /\ Returned
    /\ check_content
    /\ \E k \in InBoth : source_files[k].size # dest_files[k].size
    /\ hash_calls # {}

\* C4: when a deep run_comparison returns, a key whose two files have the
\* same size and the same content is not in different_content, whatever the
\* two modification times.
C4_EqualContentNotDifferent ==
    Returned /\ check_content =>
        \A k \in InBoth :
            srcFS[k].content = dstFS[k].content =>
                PairCount(results.different_content, k) = 0

\* a deep comparison returned for a pair of equal content and different
\* modification times, whose full hashes were computed
C4_Witness ==
    /\ Returned
    /\ check_content
    /\ \E k \in InBoth :
        /\ srcFS[k].content = dstFS[k].content
        /\ srcFS[k].mtime # dstFS[k].mtime
        /\ <<"full", <<"dst", k>>>> \in hash_calls

\* C5: when a shallow run_comparison returns, a key scanned in both trees with
\* equal sizes is in different_content exactly when the two modified
\* timestamps differ; no hash function was called and no Hashing event sent.
C5_Shallow ==
    Returned /\ ~check_content =>
        /\ \A k \in InBoth :
              source_files[k].size = dest_files[k].size =>
                  (PairCount(results.different_content, k) = 1
                     <=> source_files[k].modified # dest_files[k].modified)
        /\ \A k \in InBoth : PairCount(results.different_content, k) <= 1
        /\ hash_calls = {}
        /\ Events("Hashing") = <<>>

\* a shallow comparison returned: one pair of equal content is reported for
\* its timestamps, one pair of different content and equal size is not
C5_Witness ==
    /\ Returned
    /\ ~check_content
    /\ \E k \in InBoth :
        /\ srcFS[k].content = dstFS[k].content
        /\ PairCount(results.different_content, k) = 1
    /\ \E k \in InBoth :
        /\ srcFS[k].content # dstFS[k].content
        /\ source_files[k].size = dest_files[k].size
        /\ PairCount(results.different_content, k) = 0

\* run_sync has just returned, having run without an I/O failure on the
\* CompareResult of a deep comparison of the trees as they were
Synced(de) ==
    /\ pc = "synced"
    /\ delete_extra = de
    /\ last.deep
    /\ ~run_failed

\* C6: after run_sync with delete_extra = false on the result of a deep
\* comparison, no copy task having failed, the destination holds every key of
\* missing_in_dest and of different_content with the source file's content,
\* and every missing_in_source file is in the destination as it was.
C6_SyncKeepsExtras ==
    Synced(FALSE) =>
        /\ \A k \in last.mid \cup last.dc :
              k \in DOMAIN dstFS /\ dstFS[k].content = srcFS[k].content
        /\ \A k \in last.mis :
              k \in DOMAIN dstFS /\ dstFS[k] = dst_at_sync[k]

\* such a sync has overwritten a different file and left an extra one alone
C6_Witness ==
    /\ Synced(FALSE)
    /\ \E k \in last.dc : dst_at_sync[k].content # srcFS[k].content
    /\ last.mis # {}

\* C7: after run_sync with delete_extra = true on the result of a deep
\* comparison, no I/O having failed in the comparison nor in the sync, the
\* destination has the source's relative keys, each with the source's content.
C7_Mirror ==
    Synced(TRUE) /\ ~last.failed =>
        /\ DOMAIN dstFS = DOMAIN srcFS
        /\ \A k \in DOMAIN srcFS : dstFS[k].content = srcFS[k].content

\* such a sync has removed an extra file and copied a missing one
C7_Witness ==
    /\ Synced(TRUE)
    /\ ~last.failed
    /\ \E k \in last.mis : k \in DOMAIN dst_at_sync /\ k \notin DOMAIN dstFS
    /\ \E k \in last.mid : k \notin DOMAIN dst_at_sync /\ k \in DOMAIN dstFS

\* two comparisons returned one after the other, with the same flag, no sync
\* run between them and no I/O failure in either
Consecutive ==
    /\ prev.valid
    /\ last.valid
    /\ ~prev.synced
    /\ prev.deep = last.deep
    /\ ~prev.failed
    /\ ~last.failed

\* C9: two consecutive comparisons of unmodified trees with the same flag
\* return results with the same keys in each of the three collections.
C9_Idempotent ==
    Consecutive =>
        /\ prev.mid = last.mid
        /\ prev.mis = last.mis
        /\ prev.dc = last.dc

\* two consecutive deep comparisons returned the same non-empty collections
\* in different internal order
C9_Witness ==
    /\ Consecutive
    /\ last.deep
    /\ Cardinality(last.dc) = 2
    /\ prev.value # last.value

\* the two files of key k have the same size above 32 KiB, the same first
\* 16 KiB and the same last 16 KiB, and differ in between
SameEndsOnly(k) ==
    LET a == srcFS[k].content
        b == dstFS[k].content
    IN  /\ Size(a) = Size(b)
        /\ Size(a) > 32768
        /\ Take(a, 16384) = Take(b, 16384)
        /\ Drop(a, Size(a) - 16384) = Drop(b, Size(b) - 16384)
        /\ a # b

\* C10: for such a pair calculate_partial_hash returns equal values and
\* calculate_hash different ones, and a deep run_comparison in which no I/O
\* fails returns the pair in different_content.
C10_MiddleDifference ==
    \A k \in DOMAIN srcFS \cap DOMAIN dstFS :
        SameEndsOnly(k) =>
            /\ calculate_partial_hash(srcFS[k].content)
                 = calculate_partial_hash(dstFS[k].content)
            /\ calculate_hash(srcFS[k].content) # calculate_hash(dstFS[k].content)
            /\ Returned /\ check_content /\ ~run_failed =>
                 PairCount(results.different_content, k) = 1

\* a deep comparison returned such a pair, with the two full hashes attached
C10_Witness ==
    /\ Returned
    /\ check_content
    /\ \E i \in 1..Len(results.different_content) :
        /\ SameEndsOnly(results.different_content[i][1].rel_path)
        /\ results.different_content[i][1].hash # None
        /\ results.different_content[i][2].hash # None

NonDecreasing(events) ==
    \A i, j \in 1..Len(events) : i < j => events[i].cur <= events[j].cur

\* C8: the Hashing (the Syncing) events on the channel carry non-decreasing
\* current values and, once Complete is sent, the last of them has
\* current = total.
C8_ProgressOrdered ==
    \A t \in {"Hashing", "Syncing"} :
        LET events == Events(t) IN
        /\ NonDecreasing(events)
        /\ Len(chan) > 0 /\ chan[Len(chan)] = Complete /\ events # <<>> =>
             events[Len(events)].cur = events[Len(events)].total

\* C11: a run_sync execution sends no Complete while a copy or delete task is
\* unfinished, and has sent exactly one when it returns, as the last event of
\* its channel (so no Syncing event follows it), also when tasks have failed.
C11_OneCompleteLast ==
    /\ pc = "sync" => Events("Complete") = <<>>
    /\ pc = "synced" =>
          /\ counter = total
          /\ Len(Events("Complete")) = 1
          /\ chan[Len(chan)] = Complete

\* a sync of two tasks or more has returned, one of its tasks having failed
C11_Witness ==
    /\ pc = "synced"
    /\ run_failed
    /\ total >= 2
    /\ Events("Syncing") # <<>>

\* C12: in run_sync a failed task stops nothing: while the run is on, a step
\* of it can be taken; when it has returned (always Ok), every copy task that
\* did not fail has written the source file's content to its destination, and
\* every delete task that did not fail has removed its file.
C12_FailuresIsolated ==
    /\ pc = "sync" => ENABLED SyncNext
    /\ pc = "synced" =>
          LET copies == CopyTasks(results)
              deletes == DeleteTasks(results, delete_extra)
          IN  /\ \A i \in 1..Len(copies) :
                    <<"copy", copies[i].to>> \notin io_failed =>
                        /\ Exists(copies[i].to)
                        /\ FileAt(copies[i].to).content = FileAt(copies[i].from).content
              /\ \A j \in 1..Len(deletes) :
                    <<"delete", deletes[j]>> \notin io_failed => ~Exists(deletes[j])

\* a sync has returned in which one copy failed and another copy changed
\* the destination
C12_Witness ==
    /\ pc = "synced"
    /\ \E i, j \in 1..Len(CopyTasks(results)) :
          LET copies == CopyTasks(results) IN
          /\ <<"copy", copies[i].to>> \in io_failed
          /\ <<"copy", copies[j].to>> \notin io_failed
          /\ dstFS # dst_at_sync

\* the keys of the candidate pairs one of whose hash calls failed in this run
HashFailedKeys == {f[2][2] : f \in {g \in io_failed : g[1] = "hash"}}

\* C15: when a deep run_comparison returns, a same-size pair one of whose
\* partial or full hash calls failed is in none of the three collections, and
\* every other same-size pair scanned in both trees is in different_content
\* exactly when the contents of its two files differ.
C15_HashFailureDropsPair ==
    Returned /\ check_content =>
        /\ \A k \in HashFailedKeys :
              /\ Count(results.missing_in_dest, k) = 0
              /\ Count(results.missing_in_source, k) = 0
              /\ PairCount(results.different_content, k) = 0
        /\ \A k \in InBoth \ HashFailedKeys :
              source_files[k].size = dest_files[k].size =>
                  (PairCount(results.different_content, k) = 1
                     <=> srcFS[k].content # dstFS[k].content)

\* a deep comparison returned: the hashing of one pair of different content
\* failed, and another pair was classified as different by its hashes
C15_Witness ==
    /\ Returned
    /\ check_content
    /\ \E k \in HashFailedKeys : srcFS[k].content # dstFS[k].content
    /\ \E k \in InBoth \ HashFailedKeys :
          /\ source_files[k].size = dest_files[k].size
          /\ PairCount(results.different_content, k) = 1

\* the keys of the files whose metadata read failed in a scan of this run
ScanFailedKeys == {f[2][2] : f \in {g \in io_failed : g[1] = "scan"}}

\* C16: when run_comparison returns, the key of a file whose metadata read
\* failed in the scan of one tree is in none of the three collections, also
\* when the other tree's scan holds a file with that key.
C16_ScanFailureExcluded ==
    Returned =>
        \A k \in ScanFailedKeys :
            /\ Count(results.missing_in_dest, k) = 0
            /\ Count(results.missing_in_source, k) = 0
            /\ PairCount(results.different_content, k) = 0

\* the paths the tasks of the running sync write to or remove
TaskPaths == [i \in 1..Len(tasks) |-> tasks[i].to] \o delete_tasks

\* C17: while run_sync runs on the CompareResult of a run_comparison of the
\* same two roots, the paths that its copy tasks write to and its delete
\* tasks remove are pairwise distinct.
C17_DistinctTaskPaths ==
    pc = "sync" =>
        \A i, j \in 1..Len(TaskPaths) : i # j => TaskPaths[i] # TaskPaths[j]

\* a sync runs with two tasks, one of them for a different_content pair
C17_Witness ==
    /\ pc = "sync"
    /\ Len(TaskPaths) = 2
    /\ Len(results.different_content) >= 1
    /\ InFlight = 2

\* both calculate_hash calls were made for key k in this comparison
FullHashed(k) ==
    {<<"full", <<"src", k>>>>, <<"full", <<"dst", k>>>>} \subseteq hash_calls

\* the two files of key k differ in their partial hashes
PartialDiffers(k) ==
    calculate_partial_hash(srcFS[k].content) # calculate_partial_hash(dstFS[k].content)

\* C19: in a returned CompareResult every missing_in_dest and
\* missing_in_source entry has hash = None; a different_content pair has
\* hashes only if both full hashes were computed for it in this run, and
\* then each entry carries the full hash of its own file; pairs reported by
\* size, by mtime or by the partial hashes have hash = None on both sides.
C19_HashOnlyFromFullStage ==
    Returned =>
        /\ \A i \in 1..Len(results.missing_in_dest) :
              results.missing_in_dest[i].hash = None
        /\ \A i \in 1..Len(results.missing_in_source) :
              results.missing_in_source[i].hash = None
        /\ \A i \in 1..Len(results.different_content) :
              LET src == results.different_content[i][1]
                  dest == results.different_content[i][2]
                  k == src.rel_path
              IN  IF check_content /\ src.size = dest.size /\ ~PartialDiffers(k)
                  THEN /\ FullHashed(k)
                       /\ src.hash = Some(calculate_hash(srcFS[k].content))
                       /\ dest.hash = Some(calculate_hash(dstFS[k].content))
                  ELSE /\ src.hash = None
                       /\ dest.hash = None

\* a deep comparison returned a pair with both hashes and a pair reported by
\* its partial hashes, without any
C19_Witness ==
    /\ Returned
    /\ check_content
    /\ \E i, j \in 1..Len(results.different_content) :
          /\ results.different_content[i][1].hash # None
          /\ results.different_content[j][1].hash = None
          /\ results.different_content[j][1].size = results.different_content[j][2].size

\* C20: in a deep run_comparison calculate_hash is called only on pairs whose
\* partial hashes are equal; a same-size pair whose partial hashes were both
\* computed and differ is in different_content when the run returns.
C20_PartialShortCircuit ==
    pc \in {"hash", "complete", "ready"} /\ check_content =>
        /\ \A c \in hash_calls : c[1] = "full" => ~PartialDiffers(c[2][2])
        /\ Returned =>
              \A k \in InBoth \ HashFailedKeys :
                  source_files[k].size = dest_files[k].size /\ PartialDiffers(k) =>
                      PairCount(results.different_content, k) = 1

\* a deep comparison returned a pair that differs in its partial hashes, and
\* computed the full hashes of another pair
C20_Witness ==
    /\ Returned
    /\ check_content
    /\ \E k \in InBoth :
          /\ source_files[k].size = dest_files[k].size
          /\ PartialDiffers(k)
          /\ HashCallsOn(k) = {<<"partial", <<"src", k>>>>, <<"partial", <<"dst", k>>>>}
    /\ \E k \in InBoth : FullHashed(k)

\* C13: when a root does not exist, run_comparison scans nothing, returns no
\* CompareResult, and what it has sent when it ends is a single Error event.
C13_RootNotFound ==
    roots # Roots =>
        /\ scanned = {}
        /\ ~Returned
        /\ pc = "complete" => Len(chan) = 1 /\ chan[1].type = "Error"

\* C14: every run_sync that the GUI has started with delete_extra = true was
\* started by the click on PROCEED in the confirmation window; the click on
\* the sync button starts it with delete_extra = false only.
C14_DeleteOnlyAfterProceed ==
    \A t \in DOMAIN threads :
        threads[t].kind = "sync" /\ threads[t].delete_extra =>
            threads[t].by = "PROCEED"

\* the GUI has started one sync from the sync button and one, with
\* delete_extra = true, from PROCEED
C14_Witness ==
    \E t, u \in DOMAIN threads :
        /\ threads[t].kind = "sync" /\ threads[t].by = "SYNC"
        /\ threads[u].kind = "sync" /\ threads[u].by = "PROCEED"
        /\ threads[u].delete_extra

\* C18: every thread that runs run_comparison or run_sync ends, having sent
\* what it has to send, whether the GUI polls its channel, never polls it, or
\* has dropped its receiver.
C18_RunsTerminate ==
    \A t \in 1..MaxRuns :
        (t \in DOMAIN threads) ~> (t \in DOMAIN threads /\ threads[t].at = "done")

\* a thread has ended after sends that failed on its dropped receiver, and
\* another with all its events left unpolled in its channel
C18_Witness ==
    \E t, u \in DOMAIN threads :
        /\ threads[t].at = "done" /\ threads[t].lost >= 2
        /\ threads[u].at = "done" /\ rx = u /\ Len(status_queue) >= 2

\* the two contents have the same first 16 KiB
SameHead(a, b) == Canon(Take(a, 16384)) = Canon(Take(b, 16384))

\* C21: two files of at most 32768 bytes with the same first 16384 bytes have
\* the same partial hash, so that a deep run_comparison of two such files of
\* equal size goes on to the full hashes; the partial hash of a file of more
\* than 32768 bytes is the hash of its first 16384 bytes followed by its last
\* 16384 bytes.
C21_PartialHashHeadOnly ==
    \A k \in DOMAIN srcFS \cap DOMAIN dstFS :
        LET a == srcFS[k].content
            b == dstFS[k].content
        IN  /\ Size(a) <= 32768 /\ Size(b) <= 32768 /\ SameHead(a, b) =>
                /\ calculate_partial_hash(a) = calculate_partial_hash(b)
                /\ Returned /\ check_content /\ ~run_failed /\ Size(a) = Size(b) =>
                      FullHashed(k)
            /\ \A c \in {a, b} :
                  Size(c) > 32768 =>
                      calculate_partial_hash(c)
                        = Blake3(Take(c, 16384) \o Drop(c, Size(c) - 16384))

\* a deep comparison returned for two different files of exactly 32768 bytes
\* with the same first 16384 bytes: it took their full hashes and reports them
C21_Witness ==
    /\ Returned
    /\ check_content
    /\ \E k \in InBoth :
          /\ Size(srcFS[k].content) = 32768
          /\ Size(dstFS[k].content) = 32768
          /\ SameHead(srcFS[k].content, dstFS[k].content)
          /\ srcFS[k].content # dstFS[k].content
          /\ FullHashed(k)
          /\ PairCount(results.different_content, k) = 1

\* thread t has not yet ended
Active(t) == threads[t].at # "done"

\* C22: start_sync spawns run_sync only while is_scanning and is_syncing are
\* both false, and no sync run is ever active together with a comparison run
\* or with another sync run.
C22_SyncOnlyWhenIdle ==
    /\ \A t \in DOMAIN threads : threads[t].kind = "sync" => ~threads[t].busy
    /\ \A t, u \in DOMAIN threads :
          t # u /\ Active(t) /\ Active(u) =>
              threads[t].kind = "compare" /\ threads[u].kind = "compare"

\* C23: under fair polling, whenever is_syncing is set it is cleared later,
\* whatever the user does meanwhile.
C23_SyncingEnds == is_syncing ~> ~is_syncing

\* C24: no status event of a comparison or sync run is lost: none is sent to
\* a dropped receiver and none waits in a channel whose receiver is dropped,
\* so that the polling loop of update() gets every one of them.
C24_EveryEventProcessed ==
    \A t \in DOMAIN threads : threads[t].lost = 0

\* C25: from its first step on, the channel of a run_comparison execution
\* starts with ScanningBoth, its only one; no Complete is on it before the
\* hashing has ended; when Complete is sent and when the result is returned
\* it holds exactly one Complete, as its last event, and Hashing events only
\* between the two.
C25_EventOrder ==
    pc \in {"scan", "hash", "finish", "complete", "ready"} =>
        /\ chan # <<>>
        /\ chan[1] = ScanningBoth
        /\ Len(Events("ScanningBoth")) = 1
        /\ pc \in {"scan", "hash", "finish"} => Events("Complete") = <<>>
        /\ pc \in {"complete", "ready"} =>
              /\ Len(Events("Complete")) = 1
              /\ chan[Len(chan)] = Complete
              /\ \A i \in 2..(Len(chan) - 1) : chan[i].type = "Hashing"

\* a deep comparison has returned, having sent Hashing events
C25_Witness ==
    /\ Returned
    /\ check_content
    /\ Len(Events("Hashing")) >= 1
    /\ Len(chan) >= 3

\* C26: no step of run_comparison changes a file of either tree, and no step
\* of run_sync changes a file of the source tree: every path its tasks write
\* to or remove is under the destination root.
C26_SourceUntouched ==
    [][/\ srcFS' = srcFS
       /\ pc \in {"scan", "hash", "finish", "complete"} => dstFS' = dstFS
       /\ pc = "sync" => \A i \in 1..Len(TaskPaths) : TaskPaths[i][1] = "dst"]_vars

\* a sync with delete_extra = true has returned, having copied a file and
\* removed another
C26_Witness ==
    /\ pc = "synced"
    /\ delete_extra
    /\ \E k \in DOMAIN dstFS : k \notin DOMAIN dst_at_sync
    /\ \E k \in DOMAIN dst_at_sync : k \notin DOMAIN dstFS

\* a deep comparison, a run_sync on its result with delete_extra = de and a
\* second deep comparison have returned, no I/O having failed in any of them
Converged(de) ==
    /\ Returned
    /\ prev.valid
    /\ last.valid
    /\ prev.synced
    /\ delete_extra = de
    /\ prev.deep
    /\ last.deep
    /\ ~prev.failed
    /\ ~prev.sync_failed
    /\ ~last.failed

\* C27: the second deep comparison after a run_sync with delete_extra = true
\* returns three empty collections; after one with delete_extra = false it
\* returns empty missing_in_dest and different_content, and the keys of
\* missing_in_source that the first comparison returned.
C27_Convergence ==
    /\ Converged(TRUE) => last.value = EmptyResult
    /\ Converged(FALSE) =>
          /\ last.value.missing_in_dest = <<>>
          /\ last.value.different_content = <<>>
          /\ last.mis = prev.mis

\* such a second comparison has returned after a sync that overwrote a
\* different file and removed an extra one
C27_Witness ==
    /\ Converged(TRUE)
    /\ prev.dc # {}
    /\ prev.mis # {}
    /\ \E k \in prev.mis : k \in DOMAIN dst_at_sync /\ k \notin DOMAIN dstFS
====
